---- MODULE Spec2Model ----
(***************************************************************************)
(* Model of the stadium crowd simulation, src/simulator/dragao_simulator.py *)
(* (run_stadium_simulation and the classes it uses).                        *)
(*                                                                          *)
(* Lengths and coordinates are fixed-point numbers in hundredths of a map   *)
(* unit (the source uses floats): 47.4 is written 4740, a step of 0.8 is 80. *)
(* Simulated time is counted in ticks: current_time = step / FPS, so a       *)
(* comparison "current_time > T" is written "step > T * FPS".                *)
(***************************************************************************)
EXTENDS Integers, Sequences, FiniteSets

VARIABLES
    step,                 \* loop variable of "for step in range(STEPS)"; STEPS once the loop has ended
    phase,                \* the phase label computed at the top of the tick
    positions,            \* positions[i]    = <<x, y>>
    states,               \* states[i]       in 3..12
    destinations,         \* destinations[i] = <<x, y>>
    current_destinations, \* current_destinations[i]: facility or gate name, "NONE" when unset
    service_times,        \* service_times[i], in simulated seconds
    assigned_seats,       \* assigned_seats[i] = <<x, y>>
    assigned_zones,       \* assigned_zones[i]: seating zone name
    entry_gates,          \* entry_gates[i]: gate name
    zone_counters,        \* event_gen.zone_counters
    gate_counters,        \* event_gen.gate_counters
    threads,              \* threads[i]: the delayed-return thread started for agent i
    counted_at,           \* history: facilities on which agent i holds a +1 of zone_counters
    blocked_only,         \* history: agent i is in state 3 and every step it tried so far was blocked
    trail,                \* history: the values states[i] took during the last step, the old one first
    gate_events,          \* history: gate events emitted for agent i, per direction
    last_density_update,  \* tick of the last batch of crowd_density events (0 at the start)
    last_queue_update,    \* tick of the last batch of queue_update events
    last_bin_update,      \* tick of the last batch of bin_status events
    batches,              \* history: the periodic batches the last tick emitted
    eg,                   \* an EventGenerator and its MQTTPublisher, driven call by call (SpecGen)
    zq,                   \* a call of get_zone_for_gate and its result (SpecZone)
    lp                    \* the bin, fire and evacuation events of the main loop (SpecLoop)

vars == <<step, phase, positions, states, destinations,
          current_destinations, service_times, assigned_seats, assigned_zones,
          entry_gates, zone_counters, gate_counters, threads, counted_at,
          blocked_only, trail, gate_events, last_density_update,
          last_queue_update, last_bin_update, batches, eg, zq, lp>>

(***************************************************************************)
(* Bounds of the model.                                                     *)
(***************************************************************************)
\* number of simulated people (150 in the source)
n_pedestrians == 2
\* capacity of a bar / of a toilet (50 and 30 in the source, for 150 people:
\* 75 people enter by each gate and can all head for the same bar)
BAR_CAPACITY == 1
TOILET_CAPACITY == 1
\* a delayed-return thread wakes at most this many ticks after it was started
MaxWakeDelay == 1

Agents == 0 .. (n_pedestrians - 1)

(***************************************************************************)
(* Program constants.                                                       *)
(***************************************************************************)
FPS == 5
SIMULATION_DURATION == 300
STEPS == SIMULATION_DURATION * FPS

TIMELINE == [pre_game |-> 60, game_start |-> 120, half_time |-> 180,
             game_resume |-> 240, game_end |-> 280, evacuation_complete |-> 300]

START_POSITIONS == << <<0, 4740>>, <<-1060, 4550>>, <<-1300, -4460>>, <<1700, -4380>> >>

SEAT_CAPACITY == 200
GATE_CAPACITY == 100

\* speeds (distance per tick) and arrival thresholds of the walking states
SPEED_TO_SEAT == 80
SPEED_BAR == 70
SPEED_TOILET == 60
SPEED_EXIT == 90
ARRIVE_SEAT == 100
ARRIVE_FAR == 200

(***************************************************************************)
(* StadiumBoundaries: the static geometry.                                  *)
(***************************************************************************)
stadium_bounds == [x_min |-> -6000, x_max |-> 6000, y_min |-> -4500, y_max |-> 4500]
field_center == <<0, 0>>
field_radius_x == 3500
field_radius_y == 2000

\* dictionaries are kept as sequences: the order is the insertion order
gates == << [name |-> "GATE_NORTH", pos |-> <<0, 4800>>],
            [name |-> "GATE_SOUTH", pos |-> <<0, -4800>>],
            [name |-> "GATE_EAST",  pos |-> <<6000, 0>>],
            [name |-> "GATE_WEST",  pos |-> <<-6000, 0>>] >>

bars == << [name |-> "BAR_NORTE", pos |-> <<0, 3500>>],
           [name |-> "BAR_SUL",   pos |-> <<0, -3500>>],
           [name |-> "BAR_LESTE", pos |-> <<4500, 0>>],
           [name |-> "BAR_OESTE", pos |-> <<-4500, 0>>] >>

toilets == << [name |-> "WC_NORTE_1", pos |-> <<4000, 3000>>],
              [name |-> "WC_NORTE_2", pos |-> <<-4000, 3000>>],
              [name |-> "WC_SUL_1",   pos |-> <<4000, -3000>>],
              [name |-> "WC_SUL_2",   pos |-> <<-4000, -3000>>],
              [name |-> "WC_LESTE",   pos |-> <<5000, 0>>],
              [name |-> "WC_OESTE",   pos |-> <<-5000, 0>>] >>

seating_areas == << [name |-> "NORTE_1", pos |-> <<-5500, 4000>>],
                    [name |-> "NORTE_2", pos |-> <<-3500, 4000>>],
                    [name |-> "NORTE_3", pos |-> <<-1500, 4000>>],
                    [name |-> "NORTE_4", pos |-> <<1500, 4000>>],
                    [name |-> "NORTE_5", pos |-> <<3500, 4000>>],
                    [name |-> "NORTE_6", pos |-> <<5500, 4000>>],
                    [name |-> "SUL_1", pos |-> <<-5500, -4000>>],
                    [name |-> "SUL_2", pos |-> <<-3500, -4000>>],
                    [name |-> "SUL_3", pos |-> <<-1500, -4000>>],
                    [name |-> "SUL_4", pos |-> <<1500, -4000>>],
                    [name |-> "SUL_5", pos |-> <<3500, -4000>>],
                    [name |-> "SUL_6", pos |-> <<5500, -4000>>],
                    [name |-> "LESTE_1", pos |-> <<5500, 2500>>],
                    [name |-> "LESTE_2", pos |-> <<5500, 500>>],
                    [name |-> "LESTE_3", pos |-> <<5500, -2500>>],
                    [name |-> "OESTE_1", pos |-> <<-5500, 2500>>],
                    [name |-> "OESTE_2", pos |-> <<-5500, 500>>],
                    [name |-> "OESTE_3", pos |-> <<-5500, -2500>>] >>

Names(dict) == {dict[k].name : k \in 1 .. Len(dict)}
PosOf(dict, n) == dict[CHOOSE k \in 1 .. Len(dict) : dict[k].name = n].pos
BarNames == Names(bars)
ToiletNames == Names(toilets)
GateNames == Names(gates)
SeatingNames == Names(seating_areas)
Facilities == BarNames \cup ToiletNames
Zones == SeatingNames \cup Facilities

zone_capacities(z) ==
    IF z \in SeatingNames THEN SEAT_CAPACITY
    ELSE IF z \in BarNames THEN BAR_CAPACITY
    ELSE IF z \in ToiletNames THEN TOILET_CAPACITY
    ELSE GATE_CAPACITY

is_inside_stadium(x, y) ==
    /\ stadium_bounds.x_min <= x /\ x <= stadium_bounds.x_max
    /\ stadium_bounds.y_min <= y /\ y <= stadium_bounds.y_max

\* (x/rx)^2 + (y/ry)^2 <= 1, multiplied out; rx : ry = 7 : 4 keeps the
\* products inside 32 bits
is_inside_field(x, y) ==
    LET nx == (x - field_center[1]) * (field_radius_y \div 500)
        ny == (y - field_center[2]) * (field_radius_x \div 500)
        r  == (field_radius_x \div 500) * field_radius_y
    IN  nx * nx + ny * ny <= r * r

is_position_allowed(x, y) == is_inside_stadium(x, y) /\ ~is_inside_field(x, y)

\* map_stadium.png is not part of the repository: imread raises, and the
\* simulation runs on the geometric fallback
use_image == FALSE

\* the "except" branch of the image loading: the lambda of line 506
is_walkable_from_image(x, y) == is_position_allowed(x, y)

is_position_valid(x, y) ==
    IF use_image THEN is_walkable_from_image(x, y) ELSE is_position_allowed(x, y)

(***************************************************************************)
(* Fixed-point arithmetic standing for the numpy float computations.        *)
(***************************************************************************)
RoundDiv(a, b) == (2 * a + b) \div (2 * b)

RECURSIVE SqrtSearch(_, _, _)
SqrtSearch(n, lo, hi) ==
    IF lo >= hi THEN lo
    ELSE LET mid == (lo + hi + 1) \div 2
         IN  IF mid * mid <= n THEN SqrtSearch(n, mid, hi)
             ELSE SqrtSearch(n, lo, mid - 1)

ISqrt(n) == SqrtSearch(n, 0, 20000)

\* the square of np.linalg.norm(b - a)
Dist2(a, b) ==
    LET dx == b[1] - a[1]
        dy == b[2] - a[2]
    IN  dx * dx + dy * dy

\* np.linalg.norm(b - a)
Norm(a, b) == ISqrt(Dist2(a, b))

\* distance > threshold, decided on the squares
Farther(a, b, threshold) == Dist2(a, b) > threshold * threshold

\* (direction / distance) * speed, for distance > 0
StepVector(pos, dest, speed) ==
    LET dx == dest[1] - pos[1]
        dy == dest[2] - pos[2]
        distance == Norm(pos, dest)
    IN  <<RoundDiv(dx * speed, distance), RoundDiv(dy * speed, distance)>>

Add(p, v) == <<p[1] + v[1], p[2] + v[2]>>

\* np.random.uniform(-0.5, 0.5): the sampled angles, as <<1000 cos, 1000 sin>>
AngleSamples == { <<878, -479>>, <<878, 479>> }

\* rotation @ step_vector * 0.8
RotatedStep(angle, v) ==
    <<RoundDiv((angle[1] * v[1] - angle[2] * v[2]) * 8, 10000),
      RoundDiv((angle[2] * v[1] + angle[1] * v[2]) * 8, 10000)>>

(***************************************************************************)
(* Nearest gate, bar, toilet: np.argmin over the distances, in dictionary   *)
(* order (the first of several equal minima).                               *)
(***************************************************************************)
NearestIdx(dict, position) ==
    CHOOSE k \in 1 .. Len(dict) :
        /\ \A j \in 1 .. Len(dict) : Dist2(position, dict[k].pos) <= Dist2(position, dict[j].pos)
        /\ \A j \in 1 .. (k - 1) : Dist2(position, dict[j].pos) > Dist2(position, dict[k].pos)

get_nearest_gate(position) == gates[NearestIdx(gates, position)]
get_nearest_bar(position) == bars[NearestIdx(bars, position)]
get_nearest_toilet(position) == toilets[NearestIdx(toilets, position)]

area_keys(gate_name) ==
    IF gate_name = "GATE_NORTH"
    THEN {"NORTE_1", "NORTE_2", "NORTE_3", "NORTE_4", "NORTE_5", "NORTE_6"}
    ELSE IF gate_name = "GATE_SOUTH"
    THEN {"SUL_1", "SUL_2", "SUL_3", "SUL_4", "SUL_5", "SUL_6"}
    ELSE IF gate_name = "GATE_EAST"
    THEN {"LESTE_1", "LESTE_2", "LESTE_3"}
    ELSE {"OESTE_1", "OESTE_2", "OESTE_3"}

\* The sampled draws of get_seat_near_gate: a zone and the offset
\* (uniform(-8, 8), uniform(-5, 5)) from its centre; "from" names the start
\* positions (i % 4) whose agents the draw is tried for.
SeatSamples ==
    { [zone |-> "NORTE_3", off |-> <<790, -500>>, from |-> {0}],   \* next to BAR_NORTE
      [zone |-> "NORTE_3", off |-> <<790, 490>>, from |-> {1}],       \* on the upper boundary
      [zone |-> "NORTE_2", off |-> <<-500, -500>>, from |-> {1}],     \* next to WC_NORTE_2, nearest gate WEST
      [zone |-> "SUL_3",   off |-> <<790, 490>>, from |-> {2, 3}] }

get_seat_near_gate(gate_name, k) ==
    { [zone |-> s.zone, pos |-> Add(PosOf(seating_areas, s.zone), s.off)] :
        s \in {t \in SeatSamples : t.zone \in area_keys(gate_name) /\ k \in t.from} }

\* np.random.uniform(half_time + 5, game_resume - 10): the sampled values
ServiceTimeSamples == {229}

(***************************************************************************)
(* EventGenerator helpers.                                                  *)
(***************************************************************************)
Max(a, b) == IF a >= b THEN a ELSE b

update_zone_occupancy(zc, zone_id, delta) ==
    [zc EXCEPT ![zone_id] = Max(0, @ + delta)]

\* the counter update of generate_gate_event
gate_count(gc, gate_name, direction) ==
    [gc EXCEPT ![gate_name] = @ + (IF direction = "entry" THEN 1 ELSE -1)]

\* history of the facility counters an agent has raised and not yet lowered
RECURSIVE RemoveFirst(_, _)
RemoveFirst(seq, f) ==
    IF seq = << >> THEN << >>
    ELSE IF Head(seq) = f THEN Tail(seq)
    ELSE <<Head(seq)>> \o RemoveFirst(Tail(seq), f)

Count(c, zone_id, delta) ==
    [c EXCEPT !.zc = update_zone_occupancy(c.zc, zone_id, delta),
              !.cnt = IF zone_id \notin Facilities THEN c.cnt
                      ELSE IF delta > 0 THEN Append(c.cnt, zone_id)
                      ELSE RemoveFirst(c.cnt, zone_id)]

NoThread == [pc |-> "none", kind |-> "none", age |-> 0]

(***************************************************************************)
(* The body of "for i in range(n_pedestrians)": the blocks run one after    *)
(* the other on the same agent, each reading what the previous one wrote.   *)
(* c holds the agent's entries of the arrays and dictionaries and the two    *)
(* counter tables: pos, st, dest, cd (current_destinations), zc, gc, thr,    *)
(* and the histories cnt, bo.                                                *)
(***************************************************************************)
\* one validated step of the states 5, 7, 8, 10, 11: no move when blocked
CheckedStep(c, speed) ==
    LET new_pos == Add(c.pos, StepVector(c.pos, c.dest, speed))
    IN  IF is_position_valid(new_pos[1], new_pos[2])
        THEN [c EXCEPT !.pos = new_pos]
        ELSE c

\* WalkToSeat with a seeded fault: the state test also lets state 12 through
WalkToSeatAlsoExited(i, c, angle) ==
    IF c.st \notin {3, 12} THEN c
    ELSE IF Farther(c.pos, c.dest, ARRIVE_SEAT)
    THEN LET step_vector == StepVector(c.pos, c.dest, SPEED_TO_SEAT)
             new_pos == Add(c.pos, step_vector)
         IN  IF is_position_valid(new_pos[1], new_pos[2])
             THEN [c EXCEPT !.pos = new_pos, !.bo = FALSE]
             ELSE [c EXCEPT !.pos = Add(c.pos, RotatedStep(angle, step_vector))]
    ELSE Count([c EXCEPT !.st = 4, !.pos = assigned_seats[i], !.bo = FALSE],
               assigned_zones[i], 1)

\* if states[i] == 3
WalkToSeat(i, c, angle) ==
    IF c.st # 3 THEN c
    ELSE IF Farther(c.pos, c.dest, ARRIVE_SEAT)
    THEN LET step_vector == StepVector(c.pos, c.dest, SPEED_TO_SEAT)
             new_pos == Add(c.pos, step_vector)
         IN  IF is_position_valid(new_pos[1], new_pos[2])
             THEN [c EXCEPT !.pos = new_pos, !.bo = FALSE]
             ELSE [c EXCEPT !.pos = Add(c.pos, RotatedStep(angle, step_vector))]
    ELSE Count([c EXCEPT !.st = 4, !.pos = assigned_seats[i], !.bo = FALSE],
               assigned_zones[i], 1)

\* LeaveSeat with a seeded fault: no test of service_times[i]
LeaveSeatAnyTime(i, c, coin) ==
    IF /\ c.st = 4
       /\ TIMELINE.half_time * FPS <= step
       /\ step < TIMELINE.game_resume * FPS
    THEN LET d == Count(c, assigned_zones[i], -1)
             bar == get_nearest_bar(c.pos)
             toilet == get_nearest_toilet(c.pos)
         IN  IF coin = "BAR"
             THEN [d EXCEPT !.st = 5, !.cd = bar.name, !.dest = bar.pos]
             ELSE [d EXCEPT !.st = 8, !.cd = toilet.name, !.dest = toilet.pos]
    ELSE c

\* LeaveSeat with a seeded fault: the agent leaves only if it was seated
\* before the tick's first game second (current_time > service_times[i])
LeaveSeatLate(i, c, coin) ==
    IF /\ c.st = 4
       /\ TIMELINE.half_time * FPS <= step
       /\ step < TIMELINE.game_resume * FPS
       /\ step > service_times[i] * FPS
    THEN LET d == Count(c, assigned_zones[i], -1)
             bar == get_nearest_bar(c.pos)
             toilet == get_nearest_toilet(c.pos)
         IN  IF coin = "BAR"
             THEN [d EXCEPT !.st = 5, !.cd = bar.name, !.dest = bar.pos]
             ELSE [d EXCEPT !.st = 8, !.cd = toilet.name, !.dest = toilet.pos]
    ELSE c

\* if states[i] == 4 and half_time <= current_time < game_resume
\*    and current_time >= service_times[i]
LeaveSeat(i, c, coin) ==
    IF /\ c.st = 4
       /\ TIMELINE.half_time * FPS <= step
       /\ step < TIMELINE.game_resume * FPS
       /\ step >= service_times[i] * FPS
    THEN LET d == Count(c, assigned_zones[i], -1)
             bar == get_nearest_bar(c.pos)
             toilet == get_nearest_toilet(c.pos)
         IN  IF coin = "BAR"
             THEN [d EXCEPT !.st = 5, !.cd = bar.name, !.dest = bar.pos]
             ELSE [d EXCEPT !.st = 8, !.cd = toilet.name, !.dest = toilet.pos]
    ELSE c

\* WalkToFacility with a seeded fault: the arrival writes the state after "arrived"
WalkToFacilitySkipService(i, c, walking, arrived, speed, kind) ==
    IF c.st # walking THEN c
    ELSE IF Farther(c.pos, c.dest, ARRIVE_FAR)
    THEN CheckedStep(c, speed)
    ELSE [Count([c EXCEPT !.st = arrived + 1, !.pos = c.dest], c.cd, 1)
            EXCEPT !.thr = [pc |-> "sleep", kind |-> kind, age |-> 0]]

\* WalkToFacility with a seeded fault: the arrival does not count the agent
WalkToFacilityNoCount(i, c, walking, arrived, speed, kind) ==
    IF c.st # walking THEN c
    ELSE IF Farther(c.pos, c.dest, ARRIVE_FAR)
    THEN CheckedStep(c, speed)
    ELSE [c EXCEPT !.st = arrived, !.pos = c.dest,
                   !.thr = [pc |-> "sleep", kind |-> kind, age |-> 0]]

\* if states[i] == 5 / if states[i] == 8
WalkToFacility(i, c, walking, arrived, speed, kind) ==
    IF c.st # walking THEN c
    ELSE IF Farther(c.pos, c.dest, ARRIVE_FAR)
    THEN CheckedStep(c, speed)
    ELSE [Count([c EXCEPT !.st = arrived, !.pos = c.dest], c.cd, 1)
            EXCEPT !.thr = [pc |-> "sleep", kind |-> kind, age |-> 0]]

\* ReturnToSeat with a seeded fault: the facility counter is not lowered
ReturnToSeatNoRelease(i, c, walking, speed) ==
    IF c.st # walking THEN c
    ELSE IF Farther(c.pos, c.dest, ARRIVE_SEAT)
    THEN CheckedStep(c, speed)
    ELSE Count([c EXCEPT !.st = 4, !.pos = assigned_seats[i]],
               assigned_zones[i], 1)

\* if states[i] == 7 / if states[i] == 10
ReturnToSeat(i, c, walking, speed) ==
    IF c.st # walking THEN c
    ELSE IF Farther(c.pos, c.dest, ARRIVE_SEAT)
    THEN CheckedStep(c, speed)
    ELSE LET d == [c EXCEPT !.st = 4, !.pos = assigned_seats[i]]
             e == IF d.cd # "NONE" THEN Count(d, d.cd, -1) ELSE d
         IN  Count(e, assigned_zones[i], 1)

\* StartExit with a seeded fault: the seating zone is not released
StartExitNoRelease(i, c) ==
    IF step > TIMELINE.game_end * FPS /\ c.st = 4
    THEN LET gate == get_nearest_gate(c.pos)
         IN  [c EXCEPT !.st = 11, !.cd = gate.name, !.dest = gate.pos]
    ELSE c

\* if current_time > game_end and states[i] == 4
StartExit(i, c) ==
    IF step > TIMELINE.game_end * FPS /\ c.st = 4
    THEN LET gate == get_nearest_gate(c.pos)
         IN  Count([c EXCEPT !.st = 11, !.cd = gate.name, !.dest = gate.pos],
                   assigned_zones[i], -1)
    ELSE c

\* WalkToExit with a seeded fault: the state test also lets state 12 through
WalkToExitAgain(i, c) ==
    IF c.st \notin {11, 12} THEN c
    ELSE IF Farther(c.pos, c.dest, ARRIVE_FAR)
    THEN CheckedStep(c, SPEED_EXIT)
    ELSE [c EXCEPT !.st = 12, !.pos = c.dest,
                   !.gc = gate_count(c.gc, c.cd, "exit"),
                   !.ge = [@ EXCEPT !.exit = @ + 1]]

\* if states[i] == 11
WalkToExit(i, c) ==
    IF c.st # 11 THEN c
    ELSE IF Farther(c.pos, c.dest, ARRIVE_FAR)
    THEN CheckedStep(c, SPEED_EXIT)
    ELSE [c EXCEPT !.st = 12, !.pos = c.dest,
                   !.gc = gate_count(c.gc, c.cd, "exit"),
                   !.ge = [@ EXCEPT !.exit = @ + 1]]

\* periods of the periodic events, in simulated seconds
DENSITY_PERIOD == 10
QUEUE_PERIOD == 8
BIN_PERIOD == 15

\* Due with a seeded fault: a strict comparison
DueStrict(s, last, period) == s - last > period * FPS

\* current_time - last_..._update >= period, at tick s and with the last
\* update kept as a tick: both times are multiples of 1 / FPS and every
\* value compared is exact in floating point
Due(s, last, period) == s - last >= period * FPS

\* the value of the variables of another specification while they are not used
NotUsed == "not used"

\* PhaseAt with a seeded fault: the labels of two branches exchanged
PhaseAtSwapped(s) ==
    IF s > TIMELINE.game_end * FPS THEN "SAIDA"
    ELSE IF s > TIMELINE.game_resume * FPS THEN "INTERVALO"
    ELSE IF s > TIMELINE.half_time * FPS THEN "2a PARTE"
    ELSE IF s > TIMELINE.game_start * FPS THEN "1a PARTE"
    ELSE IF s > TIMELINE.pre_game * FPS THEN "PRE-JOGO"
    ELSE "ENTRADA"

\* PhaseAt with a seeded fault: the default label is the one of the last branch
PhaseAtNoEntry(s) ==
    IF s > TIMELINE.game_end * FPS THEN "SAIDA"
    ELSE IF s > TIMELINE.game_resume * FPS THEN "2a PARTE"
    ELSE IF s > TIMELINE.half_time * FPS THEN "INTERVALO"
    ELSE IF s > TIMELINE.game_start * FPS THEN "1a PARTE"
    ELSE "PRE-JOGO"

\* the phase label of the tick
PhaseAt(s) ==
    IF s > TIMELINE.game_end * FPS THEN "SAIDA"
    ELSE IF s > TIMELINE.game_resume * FPS THEN "2a PARTE"
    ELSE IF s > TIMELINE.half_time * FPS THEN "INTERVALO"
    ELSE IF s > TIMELINE.game_start * FPS THEN "1a PARTE"
    ELSE IF s > TIMELINE.pre_game * FPS THEN "PRE-JOGO"
    ELSE "ENTRADA"

(***************************************************************************)
(* The body of "for i in range(n_pedestrians)" (lines 724-909) for agent i: *)
(* the "if" blocks in the order of the source, each on the result of the    *)
(* one before.                                                              *)
(***************************************************************************)
TheOne(S) == CHOOSE x \in S : TRUE

\* history: a block that assigned states[i] adds the new value to the trail
Track(before, after) ==
    IF after.st # before.st
    THEN [after EXCEPT !.tr = Append(before.tr, after.st)]
    ELSE after

AgentBody(i, c, angle, coin) ==
    TheOne({ Track(cx, WalkToExit(i, cx)) :
      cx \in { Track(c10, StartExit(i, c10)) :
      c10 \in { Track(c8, ReturnToSeat(i, c8, 10, SPEED_TOILET)) :
      c8 \in { Track(c7, WalkToFacility(i, c7, 8, 9, SPEED_TOILET, "toilet")) :
      c7 \in { Track(c5, ReturnToSeat(i, c5, 7, SPEED_BAR)) :
      c5 \in { Track(c4, WalkToFacility(i, c4, 5, 6, SPEED_BAR, "bar")) :
      c4 \in { Track(c3, LeaveSeat(i, c3, coin)) :
      c3 \in { Track(c, WalkToSeat(i, c, angle)) } } } } } } } })

\* w holds the arrays, dictionaries and counters the agent loop works on
AgentStep(i, w, angle, coin) ==
    TheOne({ [positions |-> [w.positions EXCEPT ![i] = r.pos],
              states |-> [w.states EXCEPT ![i] = r.st],
              destinations |-> [w.destinations EXCEPT ![i] = r.dest],
              current_destinations |-> [w.current_destinations EXCEPT ![i] = r.cd],
              zone_counters |-> r.zc,
              gate_counters |-> r.gc,
              threads |-> [w.threads EXCEPT ![i] = r.thr],
              counted_at |-> [w.counted_at EXCEPT ![i] = r.cnt],
              blocked_only |-> [w.blocked_only EXCEPT ![i] = r.bo],
              trail |-> [w.trail EXCEPT ![i] = r.tr],
              gate_events |-> [w.gate_events EXCEPT ![i] = r.ge]] :
      r \in { AgentBody(i, [pos |-> w.positions[i], st |-> w.states[i],
                            dest |-> w.destinations[i],
                            cd |-> w.current_destinations[i],
                            zc |-> w.zone_counters, gc |-> w.gate_counters,
                            thr |-> w.threads[i], cnt |-> w.counted_at[i],
                            bo |-> w.blocked_only[i],
                            tr |-> <<w.states[i]>>,
                            ge |-> w.gate_events[i]], angle, coin) } })

\* for i in range(n_pedestrians), from agent i on
RECURSIVE AgentLoop(_, _, _, _)
AgentLoop(i, w, angles, coins) ==
    IF i >= n_pedestrians THEN w
    ELSE TheOne({ AgentLoop(i + 1, w2, angles, coins) :
                  w2 \in { AgentStep(i, w, angles[i], coins[i]) } })

(***************************************************************************)
(* State after the setup loop (lines 514-551).                              *)
(***************************************************************************)
start_pos(i) == START_POSITIONS[(i % Len(START_POSITIONS)) + 1]

\* the seats the "while not is_position_valid" loop can end with
SeatDraws(i) ==
    { s \in get_seat_near_gate(get_nearest_gate(start_pos(i)).name, i % Len(START_POSITIONS)) :
        is_position_valid(s.pos[1], s.pos[2]) }

Init ==
    /\ step = 0
    /\ phase = "NONE"
    /\ positions = [i \in Agents |-> start_pos(i)]
    /\ states = [i \in Agents |-> 3]
    /\ entry_gates = [i \in Agents |-> get_nearest_gate(start_pos(i)).name]
    /\ \E seat \in [Agents -> UNION {SeatDraws(i) : i \in Agents}] :
          /\ \A i \in Agents : seat[i] \in SeatDraws(i)
          /\ assigned_seats = [i \in Agents |-> seat[i].pos]
          /\ assigned_zones = [i \in Agents |-> seat[i].zone]
          /\ destinations = [i \in Agents |-> seat[i].pos]
    /\ service_times \in [Agents -> ServiceTimeSamples]
    /\ current_destinations = [i \in Agents |-> "NONE"]
    /\ zone_counters = [z \in Zones |-> 0]
    /\ gate_counters = [g \in GateNames |->
                          Cardinality({i \in Agents : get_nearest_gate(start_pos(i)).name = g})]
    /\ threads = [i \in Agents |-> NoThread]
    /\ counted_at = [i \in Agents |-> << >>]
    /\ blocked_only = [i \in Agents |-> TRUE]
    /\ trail = [i \in Agents |-> <<3>>]
    /\ gate_events = [i \in Agents |-> [entry |-> 1, exit |-> 0]]
    /\ last_density_update = 0
    /\ last_queue_update = 0
    /\ last_bin_update = 0
    /\ batches = {}
    /\ eg = NotUsed
    /\ zq = NotUsed
    /\ lp = NotUsed

(***************************************************************************)
(* The random draws of one iteration.  np.random.uniform(-0.5, 0.5) is      *)
(* drawn only by an agent in state 3, np.random.random() < 0.5 only by an   *)
(* agent that is seated, or sits down, inside the half-time window; the     *)
(* other agents get one fixed value, which their blocks never read.         *)
(***************************************************************************)
AngleDraws(i) ==
    IF states[i] = 3 THEN AngleSamples ELSE {<<1000, 0>>}

CoinDraws(i) ==
    IF /\ states[i] \in {3, 4}
       /\ TIMELINE.half_time * FPS <= step
       /\ step < TIMELINE.game_resume * FPS
    THEN {"BAR", "TOILET"}
    ELSE {"BAR"}

\* the draws of one pass over the agents, one per agent
AngleVectors ==
    {f \in [Agents -> UNION {AngleDraws(i) : i \in Agents}] :
        \A i \in Agents : f[i] \in AngleDraws(i)}

CoinVectors ==
    {f \in [Agents -> UNION {CoinDraws(i) : i \in Agents}] :
        \A i \in Agents : f[i] \in CoinDraws(i)}

(***************************************************************************)
(* One iteration of "for step in range(STEPS)" (lines 575-938): the phase   *)
(* label, the agent loop, then the drawing and plt.pause(0.01).  A thread   *)
(* that woke while the iteration ran finishes its last statement during the *)
(* pause at the latest, and a sleeping thread is one iteration older.       *)
(***************************************************************************)
Tick ==
    /\ step < STEPS
    /\ \A i \in Agents :
          /\ threads[i].pc # "late"
          /\ threads[i].pc = "sleep" => threads[i].age < MaxWakeDelay
    /\ phase' = PhaseAt(step)
    /\ last_density_update' =
          IF Due(step, last_density_update, DENSITY_PERIOD) THEN step ELSE last_density_update
    /\ last_queue_update' =
          IF Due(step, last_queue_update, QUEUE_PERIOD) THEN step ELSE last_queue_update
    /\ last_bin_update' =
          IF Due(step, last_bin_update, BIN_PERIOD) THEN step ELSE last_bin_update
    /\ batches' =
          {b \in {"density", "queue", "bin"} :
              \/ b = "density" /\ Due(step, last_density_update, DENSITY_PERIOD)
              \/ b = "queue" /\ Due(step, last_queue_update, QUEUE_PERIOD)
              \/ b = "bin" /\ Due(step, last_bin_update, BIN_PERIOD)}
    /\ \E angles \in AngleVectors, coins \in CoinVectors :
       \E w \in { AgentLoop(0,
                    [positions |-> positions, states |-> states,
                     destinations |-> destinations,
                     current_destinations |-> current_destinations,
                     zone_counters |-> zone_counters,
                     gate_counters |-> gate_counters, threads |-> threads,
                     counted_at |-> counted_at, blocked_only |-> blocked_only,
                     trail |-> trail, gate_events |-> gate_events],
                    angles, coins) } :
          /\ positions' = w.positions
          /\ states' = w.states
          /\ destinations' = w.destinations
          /\ current_destinations' = w.current_destinations
          /\ zone_counters' = w.zone_counters
          /\ gate_counters' = w.gate_counters
          /\ counted_at' = w.counted_at
          /\ blocked_only' = w.blocked_only
          /\ trail' = w.trail
          /\ gate_events' = w.gate_events
          /\ threads' = [i \in Agents |->
                           IF w.threads[i].pc = "sleep" /\ threads[i].pc = "sleep"
                           THEN [w.threads[i] EXCEPT !.age = @ + 1]
                           ELSE IF w.threads[i].pc = "setdest"
                           THEN [w.threads[i] EXCEPT !.pc = "late"]
                           ELSE w.threads[i]]
    /\ step' = step + 1
    /\ UNCHANGED <<service_times, assigned_seats, assigned_zones, entry_gates, eg, zq, lp>>

(***************************************************************************)
(* return_from_bar / return_from_toilet (lines 797-801, 848-852), run by a  *)
(* thread of their own: time.sleep, then the test and the first assignment, *)
(* then the second assignment.                                              *)
(***************************************************************************)
at_state(kind) == IF kind = "bar" THEN 6 ELSE 9
back_state(kind) == IF kind = "bar" THEN 7 ELSE 10

ThreadWake(i) ==
    /\ threads[i].pc = "sleep"
    /\ IF states[i] = at_state(threads[i].kind)
       THEN /\ states' = [states EXCEPT ![i] = back_state(threads[i].kind)]
            /\ threads' = [threads EXCEPT ![i] = [@ EXCEPT !.pc = "setdest", !.age = 0]]
       ELSE /\ states' = states
            /\ threads' = [threads EXCEPT ![i] = NoThread]
    /\ trail' = [j \in Agents |->
                    IF states'[j] # states[j] THEN <<states[j], states'[j]>>
                    ELSE <<states[j]>>]
    /\ UNCHANGED <<step, phase, positions, destinations,
                   current_destinations, service_times, assigned_seats,
                   assigned_zones, entry_gates, zone_counters, gate_counters,
                   counted_at, blocked_only, gate_events, last_density_update,
                   last_queue_update, last_bin_update, batches, eg, zq, lp>>

ThreadSetDest(i) ==
    /\ threads[i].pc \in {"setdest", "late"}
    /\ destinations' = [destinations EXCEPT ![i] = assigned_seats[i]]
    /\ threads' = [threads EXCEPT ![i] = NoThread]
    /\ trail' = [j \in Agents |-> <<states[j]>>]
    /\ UNCHANGED <<step, phase, positions, states,
                   current_destinations, service_times, assigned_seats,
                   assigned_zones, entry_gates, zone_counters, gate_counters,
                   counted_at, blocked_only, gate_events, last_density_update,
                   last_queue_update, last_bin_update, batches, eg, zq, lp>>

Next ==
    \/ Tick
    \/ \E i \in Agents : ThreadWake(i)
    \/ \E i \in Agents : ThreadSetDest(i)

Spec == Init /\ [][Next]_vars

(***************************************************************************)
(* Properties.                                                              *)
(***************************************************************************)

\* C1: at every tick the occupancy counter of every bar and toilet lies
\* between 0 and the capacity of the facility.
CapacityInvariant ==
    \A f \in Facilities :
        0 <= zone_counters[f] /\ zone_counters[f] <= zone_capacities(f)

\* C2: once an agent is in state 12 (EXITED), no step of the main loop or of
\* a delayed-return thread changes its state or its position.
ExitedStable ==
    [][\A i \in Agents :
          states[i] = 12 => states'[i] = 12 /\ positions'[i] = positions[i]]_vars

\* an agent has exited at its gate and the loop has run on to its end
ExitedAndLoopEnded ==
    \E i \in Agents :
        /\ states[i] = 12
        /\ positions[i] = PosOf(gates, current_destinations[i])
        /\ step = STEPS

\* C3: every agent holds a +1 on at most one bar or toilet counter, and each
\* of these counters is the number of agents that hold a +1 on it.
AtMostOneFacility ==
    /\ \A i \in Agents : Len(counted_at[i]) <= 1
    /\ \A f \in Facilities :
          zone_counters[f] = Cardinality({i \in Agents : counted_at[i] = <<f>>})

\* an agent on its way back from a facility, still counted there
CountedWhileReturning ==
    \E i \in Agents :
        /\ states[i] \in {7, 10}
        /\ counted_at[i] = <<current_destinations[i]>>
        /\ zone_counters[current_destinations[i]] >= 1

\* C5: every agent that started walking to an exit gate (state 11) has
\* reached EXITED when the loop ends.
ExitersExitBeforeEnd ==
    step = STEPS => \A i \in Agents : states[i] # 11

\* C6: every position a step of the simulation moves an agent to satisfies
\* is_position_valid.
NavStepValid ==
    [][\A i \in Agents :
          positions'[i] # positions[i]
              => is_position_valid(positions'[i][1], positions'[i][2])]_vars

\* C7: an agent in state 3 that has moved and whose every direct step so far
\* was blocked stays in state 3.
BlockedNeverArrives ==
    [][\A i \in Agents :
          (states[i] = 3 /\ blocked_only[i] /\ positions[i] # start_pos(i))
              => states'[i] = 3]_vars

\* the order of the phase labels; "NONE" before the first tick
PhaseRank(p) ==
    CASE p = "NONE" -> 0
      [] p = "ENTRADA" -> 1
      [] p = "PRE-JOGO" -> 2
      [] p = "1a PARTE" -> 3
      [] p = "INTERVALO" -> 4
      [] p = "2a PARTE" -> 5
      [] p = "SAIDA" -> 6

\* the times the phase computation compares with
PhaseBoundaries ==
    {TIMELINE.pre_game, TIMELINE.game_start, TIMELINE.half_time,
     TIMELINE.game_resume, TIMELINE.game_end}

\* C8: from tick to tick the phase never goes back to an earlier phase, and
\* it differs from the phase of the tick before only when a timeline boundary
\* T lies between the two ticks: (step - 1) / FPS <= T < step / FPS.
PhaseMonotonic ==
    [][/\ PhaseRank(phase') >= PhaseRank(phase)
       /\ (phase' # phase /\ phase # "NONE")
             => \E T \in PhaseBoundaries : step - 1 <= T * FPS /\ T * FPS < step]_vars

\* the last phase is reached, all boundaries crossed
LastPhaseReached == phase = "SAIDA" /\ step = STEPS

OnlyTickWrites ==
    [][(states' # states \/ destinations' # destinations) => step' = step + 1]_vars

\* C11: in the step in which an agent's service at a bar or toilet ends (it
\* leaves state 6 or 9), the counter of the facility goes down by one, the
\* agent is in the returning state and its destination is its assigned seat.
ServiceExpiryReleases ==
    [][\A i \in Agents :
          (states[i] \in {6, 9} /\ states'[i] \notin {6, 9}) =>
              /\ states'[i] \in {7, 10}
              /\ zone_counters'[current_destinations[i]]
                    = zone_counters[current_destinations[i]] - 1
              /\ destinations'[i] = assigned_seats[i]]_vars

\* C12: the gate an exiting or exited agent walks to is its entry gate.
ExitsThroughEntryGate ==
    \A i \in Agents :
        states[i] \in {11, 12} => current_destinations[i] = entry_gates[i]

\* C13: in every tick after game_end a seated agent can remain seated and can
\* start walking to a gate: both outcomes are possible steps of the tick.
ExitIsAChoice ==
    \A i \in Agents :
        (states[i] = 4 /\ step > TIMELINE.game_end * FPS /\ ENABLED Tick) =>
            /\ ENABLED (Tick /\ states'[i] = 4)
            /\ ENABLED (Tick /\ states'[i] = 11)

\* C15: every agent has exactly one entry gate event, at most one exit gate
\* event, and has its exit gate event exactly when it is in state 12 (so the
\* event is emitted in the tick of the transition, after the entry event).
GateEventsOncePerAgent ==
    \A i \in Agents :
        /\ gate_events[i].entry = 1
        /\ gate_events[i].exit <= 1
        /\ gate_events[i].exit = 1 <=> states[i] = 12

\* an agent has exited and its exit event was emitted
ExitEventEmitted ==
    \E i \in Agents : states[i] = 12 /\ gate_events[i] = [entry |-> 1, exit |-> 1]

\* the walking states, their step lengths and arrival thresholds
WalkingStates == {3, 5, 7, 8, 10, 11}

SpeedOf(st) ==
    CASE st = 3 -> SPEED_TO_SEAT
      [] st \in {5, 7} -> SPEED_BAR
      [] st \in {8, 10} -> SPEED_TOILET
      [] st = 11 -> SPEED_EXIT

ThresholdOf(st) == IF st \in {3, 7, 10} THEN ARRIVE_SEAT ELSE ARRIVE_FAR

\* agent i is in a walking state, farther than the arrival threshold
WalksOn(i) ==
    /\ states[i] \in WalkingStates
    /\ Farther(positions[i], destinations[i], ThresholdOf(states[i]))

\* the step agent i intends in the current state
DirectStep(i) == StepVector(positions[i], destinations[i], SpeedOf(states[i]))

Walkable(p) == is_position_valid(p[1], p[2])

\* C17: in a tick, a walking agent whose direct step is blocked moves by the
\* x-component of the step if that is walkable, else by the y-component if
\* that is walkable.
AxisSlide ==
    [][\A i \in Agents :
          (step' = step + 1 /\ WalksOn(i)
             /\ ~Walkable(Add(positions[i], DirectStep(i)))) =>
              LET xonly == Add(positions[i], <<DirectStep(i)[1], 0>>)
                  yonly == Add(positions[i], <<0, DirectStep(i)[2]>>)
              IN  /\ Walkable(xonly) => positions'[i] = xonly
                  /\ (~Walkable(xonly) /\ Walkable(yonly)) => positions'[i] = yonly]_vars

\* C18: a tick leaves the position, state and destination of a walking agent
\* unchanged when the agent is farther than the arrival threshold and the
\* target of its step is not walkable.
BlockedStaysPut ==
    [][\A i \in Agents :
          (step' = step + 1 /\ WalksOn(i)
             /\ ~Walkable(Add(positions[i], DirectStep(i)))) =>
              /\ positions'[i] = positions[i]
              /\ states'[i] = states[i]
              /\ destinations'[i] = destinations[i]]_vars

\* C19: the tick at simulated time t = (step - 1) / FPS emits a batch of
\* crowd_density events exactly when t is 10, 20, 30, ..., a batch of
\* queue_update events exactly when t is 8, 16, ..., and a batch of
\* bin_status events exactly when t is 15, 30, ...
PeriodicBatches ==
    step > 0 =>
        LET s == step - 1
        IN  /\ "density" \in batches <=> (s > 0 /\ s % (10 * FPS) = 0)
            /\ "queue" \in batches <=> (s > 0 /\ s % (8 * FPS) = 0)
            /\ "bin" \in batches <=> (s > 0 /\ s % (15 * FPS) = 0)

\* the second density batch, 50 ticks after the first, together with the
\* bin batch of t = 30 and no queue batch
SecondDensityBatch ==
    /\ step - 1 = 30 * FPS
    /\ batches = {"density", "bin"}
    /\ last_density_update = 30 * FPS
    /\ last_queue_update = 24 * FPS

\* the edges of the agent state machine
Edges ==
    { <<3, 4>>, <<4, 5>>, <<5, 6>>, <<6, 7>>, <<7, 4>>, <<4, 8>>, <<8, 9>>,
      <<9, 10>>, <<10, 4>>, <<4, 11>>, <<11, 12>> }

Went(i, a, b) ==
    \E k \in 1 .. (Len(trail[i]) - 1) : trail[i][k] = a /\ trail[i][k + 1] = b

\* C21: a tick seats an agent that is returning from a bar or toilet only if
\* the agent was within distance 1.0 of its assigned seat when the tick
\* began.
SeatedOnlyNearSeat ==
    [][\A i \in Agents :
          (step' = step + 1 /\ states[i] \in {7, 10} /\ (Went(i, 7, 4) \/ Went(i, 10, 4))')
              => ~Farther(positions[i], assigned_seats[i], ARRIVE_SEAT)]_vars

\* C22: the counter of every seating zone is the number of seated agents
\* whose assigned zone it is.
SeatingCountersExact ==
    \A z \in SeatingNames :
        zone_counters[z] =
            Cardinality({i \in Agents : states[i] = 4 /\ assigned_zones[i] = z})

\* an agent is seated and counted, another has left its seat and is not
SeatedAndAway ==
    \E i, j \in Agents :
        /\ states[i] = 4 /\ zone_counters[assigned_zones[i]] = 1
        /\ states[j] \in {5, 6, 7, 8, 9, 10}
        /\ zone_counters[assigned_zones[j]]
              = Cardinality({k \in Agents : states[k] = 4 /\ assigned_zones[k] = assigned_zones[j]})

\* C23: the counter of every bar and toilet is the number of agents that are
\* at it or walking back from it; so the counter is at least one whenever an
\* agent is about to lower it, and the floor at zero never clips.
FacilityCountersExact ==
    \A f \in Facilities :
        /\ zone_counters[f] =
              Cardinality({i \in Agents : states[i] \in {6, 7, 9, 10}
                                            /\ current_destinations[i] = f})
        /\ \A i \in Agents :
              (states[i] \in {7, 10} /\ current_destinations[i] = f)
                  => zone_counters[f] >= 1

\* two agents are counted at the same time, one at a facility and one
\* walking back
TwoCounted ==
    \E i, j \in Agents :
        /\ states[i] \in {6, 9} /\ states[j] \in {7, 10}
        /\ zone_counters[current_destinations[i]] >= 1
        /\ zone_counters[current_destinations[j]] >= 1

\* the tick with index s is in the half-time window of agent i
InWindow(s, i) ==
    /\ TIMELINE.half_time * FPS <= s
    /\ s < TIMELINE.game_resume * FPS
    /\ s >= service_times[i] * FPS

GateCountsNonNegative ==
    \A g \in GateNames : gate_counters[g] >= 0

(***************************************************************************)
(* The event generators and their publishers, driven call by call.  There  *)
(* are two pairs: EventGenerator + MQTTPublisher of dragao_simulator.py,    *)
(* and EventGenerator of event_generator.py + StadiumMQTTClient of          *)
(* mqtt_broker.py.  eg.live is a generator whose publisher may or may not   *)
(* be connected; eg.ref is a generator of the same kind with a connected    *)
(* publisher that receives the same calls with the same random draws.       *)
(***************************************************************************)
\* number of generate_* calls followed
MaxCalls == 3
\* number of direct StadiumMQTTClient.publish calls followed (SpecClient)
MaxPublishes == 3

SimVars == <<step, phase, positions, states, destinations,
             current_destinations, service_times, assigned_seats,
             assigned_zones, entry_gates, zone_counters, gate_counters,
             threads, counted_at, blocked_only, trail, gate_events,
             last_density_update, last_queue_update, last_bin_update, batches>>

\* the simulation is not running
SimParked ==
    /\ step = 0
    /\ phase = "NONE"
    /\ positions = NotUsed
    /\ states = NotUsed
    /\ destinations = NotUsed
    /\ current_destinations = NotUsed
    /\ service_times = NotUsed
    /\ assigned_seats = NotUsed
    /\ assigned_zones = NotUsed
    /\ entry_gates = NotUsed
    /\ zone_counters = NotUsed
    /\ gate_counters = NotUsed
    /\ threads = NotUsed
    /\ counted_at = NotUsed
    /\ blocked_only = NotUsed
    /\ trail = NotUsed
    /\ gate_events = NotUsed
    /\ last_density_update = 0
    /\ last_queue_update = 0
    /\ last_bin_update = 0
    /\ batches = {}

Impls == {"MQTTPublisher", "StadiumMQTTClient"}

MQTT_TOPIC_EVENTS == "stadium/events"
MQTT_TOPIC_ALL_EVENTS == "stadium/events/all"
MQTT_TOPIC_HEATMAP == "stadium/services/heatmap"
MQTT_TOPIC_QUEUES == "stadium/services/queues"
MQTT_TOPIC_MAINTENANCE == "stadium/services/maintenance"

\* the generate_* methods that only build an event, per generator
PlainMethods(impl) ==
    IF impl = "MQTTPublisher"
    THEN {"generate_event", "generate_bin_overflow_alert", "generate_fire_alarm_event",
          "generate_staff_dispatch", "generate_staff_assignment",
          "generate_evacuation_event", "generate_density_event", "generate_queue_event"}
    ELSE {"generate_event", "generate_bin_overflow_alert", "generate_queue_event",
          "generate_heatmap_density"}

\* the event_type of the event a method builds; generate_event takes it as
\* an argument
PersonEventSample == "person_sat_down"
EventTypeOf(method) ==
    CASE method = "generate_event" -> PersonEventSample
      [] method = "generate_bin_overflow_alert" -> "bin_overflow_alert"
      [] method = "generate_fire_alarm_event" -> "fire_alarm"
      [] method = "generate_staff_dispatch" -> "staff_dispatch"
      [] method = "generate_staff_assignment" -> "staff_assignment"
      [] method = "generate_evacuation_event" -> "evac_update"
      [] method \in {"generate_density_event", "generate_heatmap_density"} -> "crowd_density"
      [] method = "generate_queue_event" -> "queue_update"

\* Topics with a seeded fault: no method publishes to a service topic
TopicsAllOnly(method) ==
    <<MQTT_TOPIC_ALL_EVENTS>>

\* the topics a method of event_generator.py publishes to, in order
Topics(method) ==
    CASE method \in {"generate_bin_event", "generate_bin_overflow_alert"}
            -> <<MQTT_TOPIC_ALL_EVENTS, MQTT_TOPIC_MAINTENANCE>>
      [] method = "generate_queue_event" -> <<MQTT_TOPIC_ALL_EVENTS, MQTT_TOPIC_QUEUES>>
      [] method = "generate_heatmap_density" -> <<MQTT_TOPIC_ALL_EVENTS, MQTT_TOPIC_HEATMAP>>
      [] OTHER -> <<MQTT_TOPIC_ALL_EVENTS>>

\* the gate and the bin the calls are made for
GateSample == "GATE_NORTH"
BinSample == "BIN_N1"
\* np.random.uniform(5, 15), in percent
BinIncrementSamples == {5, 15}
\* fill_percentage argument: None (written -1) or a level
NoFill == -1
FillArguments == {NoFill, 95}

\* EventGenerator.__init__ with its publisher
NewGenerator(impl, client, connected) ==
    [impl |-> impl, client |-> client, connected |-> connected,
     events |-> << >>, event_count |-> 0,
     gate_counters |-> [g \in GateNames |-> 0],
     bin_fill_levels |-> [b \in {} |-> 0],
     published |-> << >>, messages_published |-> 0, raised |-> FALSE,
     publish_calls |-> << >>, client_outcome |-> "success"]

\* MQTTPublisher.publish_event with a seeded fault: no test of connected / client
publish_eventUnguarded(g, event) ==
    IF g.client = "None"
    THEN [g EXCEPT !.raised = TRUE]
    ELSE [g EXCEPT !.published = Append(@, <<MQTT_TOPIC_EVENTS, event>>)]

\* MQTTPublisher.publish_event
publish_event(g, event) ==
    IF g.connected /\ g.client # "None"
    THEN [g EXCEPT !.published = Append(@, <<MQTT_TOPIC_EVENTS, event>>)]
    ELSE g

\* what self.client.publish of paho does with a message: result.rc is
\* MQTT_ERR_SUCCESS, result.rc is another code, or the call raises
ClientOutcomes == {"success", "error", "raises"}

\* the value StadiumMQTTClient.publish returns after the underlying call
ReturnOf(outcome) == IF outcome = "success" THEN 0 ELSE 1

\* StadiumMQTTClient.publish with a seeded fault: the message is counted
\* after the underlying call has succeeded
publishCountsSuccess(g, topic, payload) ==
    IF ~g.connected
    THEN [g EXCEPT !.publish_calls =
                       Append(@, [topic |-> topic, payload |-> payload,
                                  connected |-> FALSE, outcome |-> "not called",
                                  returned |-> 1])]
    ELSE [g EXCEPT !.messages_published =
                       IF g.client_outcome = "success" THEN @ + 1 ELSE @,
                   !.published = Append(@, <<topic, payload>>),
                   !.publish_calls =
                       Append(@, [topic |-> topic, payload |-> payload,
                                  connected |-> TRUE, outcome |-> g.client_outcome,
                                  returned |-> ReturnOf(g.client_outcome)])]

\* StadiumMQTTClient.publish.  published holds the calls of self.client.publish,
\* publish_calls the calls of this method with what each returned.  The
\* payloads followed are strings, which lines 156-163 hand on as they are.
publish(g, topic, payload) ==
    IF ~g.connected
    THEN [g EXCEPT !.publish_calls =
                       Append(@, [topic |-> topic, payload |-> payload,
                                  connected |-> FALSE, outcome |-> "not called",
                                  returned |-> 1])]
    ELSE [g EXCEPT !.messages_published = @ + 1,
                   !.published = Append(@, <<topic, payload>>),
                   !.publish_calls =
                       Append(@, [topic |-> topic, payload |-> payload,
                                  connected |-> TRUE, outcome |-> g.client_outcome,
                                  returned |-> ReturnOf(g.client_outcome)])]

RECURSIVE PublishAll(_, _, _)
PublishAll(g, topics, event) ==
    IF topics = << >> THEN g
    ELSE PublishAll(publish(g, Head(topics), event), Tail(topics), event)

\* self.events.append(event); publish; self.event_count += 1
\* (an exception of the publish call leaves the method before the increment)
Emit(g, method, event) ==
    LET appended == [g EXCEPT !.events = Append(@, event)]
        sent == IF g.impl = "MQTTPublisher"
                THEN publish_event(appended, event)
                ELSE PublishAll(appended, Topics(method), event)
    IN  IF sent.raised /\ ~g.raised THEN sent
        ELSE [sent EXCEPT !.event_count = @ + 1]

generate_gate_event(g, gate_name, direction) ==
    LET counted == [g EXCEPT !.gate_counters = gate_count(@, gate_name, direction)]
    IN  Emit(counted, "generate_gate_event",
             [event_type |-> "gate_passage", id |-> gate_name,
              value |-> counted.gate_counters[gate_name]])

Min(a, b) == IF a < b THEN a ELSE b

\* generate_bin_event with a seeded fault: the new level is not capped
generate_bin_eventNoCap(g, bin_id, fill_percentage, increment) ==
    LET current == IF bin_id \in DOMAIN g.bin_fill_levels
                   THEN g.bin_fill_levels[bin_id] ELSE 0
        fill == IF fill_percentage = NoFill
                THEN current + increment ELSE fill_percentage
        filled == [g EXCEPT !.bin_fill_levels =
                      [b \in DOMAIN @ \cup {bin_id} |-> IF b = bin_id THEN fill ELSE @[b]]]
    IN  Emit(filled, "generate_bin_event",
             [event_type |-> "bin_status", id |-> bin_id, value |-> fill,
              needs_service |-> fill > 85])

generate_bin_event(g, bin_id, fill_percentage, increment) ==
    LET current == IF bin_id \in DOMAIN g.bin_fill_levels
                   THEN g.bin_fill_levels[bin_id] ELSE 0
        fill == IF fill_percentage = NoFill
                THEN Min(100, current + increment) ELSE fill_percentage
        filled == [g EXCEPT !.bin_fill_levels =
                      [b \in DOMAIN @ \cup {bin_id} |-> IF b = bin_id THEN fill ELSE @[b]]]
    IN  Emit(filled, "generate_bin_event",
             [event_type |-> "bin_status", id |-> bin_id, value |-> fill,
              needs_service |-> fill > 85])

\* the methods that touch no counter
generate_plain(g, method) ==
    Emit(g, method, [event_type |-> EventTypeOf(method), id |-> "-", value |-> 0])

\* MQTT_AVAILABLE, and whether a broker listens on localhost:1883
InitGen ==
    /\ SimParked
    /\ zq = NotUsed
    /\ lp = NotUsed
    /\ \E impl \in Impls, available \in BOOLEAN, broker_up \in BOOLEAN :
          LET client == IF impl = "MQTTPublisher" /\ ~available THEN "None" ELSE "Client"
          IN  eg = [live |-> NewGenerator(impl, client, FALSE),
                    ref |-> NewGenerator(impl, "Client", TRUE),
                    broker_up |-> broker_up /\ client = "Client",
                    calls |-> 0,
                    publishes |-> 0]

\* MQTTPublisher._on_connect / StadiumMQTTClient._on_connect with rc == 0
OnConnect ==
    /\ eg.broker_up /\ ~eg.live.connected
    /\ eg' = [eg EXCEPT !.live.connected = TRUE]
    /\ UNCHANGED <<SimVars, zq, lp>>

\* StadiumMQTTClient._on_disconnect (MQTTPublisher sets no such callback)
OnDisconnect ==
    /\ eg.live.impl = "StadiumMQTTClient" /\ eg.live.connected
    /\ eg' = [eg EXCEPT !.live.connected = FALSE]
    /\ UNCHANGED <<SimVars, zq, lp>>

GenerateGateEvent ==
    /\ eg.calls < MaxCalls
    /\ \E direction \in {"entry", "exit"} :
          eg' = [eg EXCEPT !.live = generate_gate_event(@, GateSample, direction),
                           !.ref = generate_gate_event(@, GateSample, direction),
                           !.calls = @ + 1]
    /\ UNCHANGED <<SimVars, zq, lp>>

GenerateBinEvent ==
    /\ eg.calls < MaxCalls
    /\ \E fill \in FillArguments, inc \in BinIncrementSamples :
          eg' = [eg EXCEPT !.live = generate_bin_event(@, BinSample, fill, inc),
                           !.ref = generate_bin_event(@, BinSample, fill, inc),
                           !.calls = @ + 1]
    /\ UNCHANGED <<SimVars, zq, lp>>

GeneratePlainEvent ==
    /\ eg.calls < MaxCalls
    /\ \E method \in PlainMethods(eg.live.impl) :
          eg' = [eg EXCEPT !.live = generate_plain(@, method),
                           !.ref = generate_plain(@, method),
                           !.calls = @ + 1]
    /\ UNCHANGED <<SimVars, zq, lp>>

NextGen ==
    \/ OnConnect
    \/ OnDisconnect
    \/ GenerateGateEvent
    \/ GenerateBinEvent
    \/ GeneratePlainEvent

SpecGen == InitGen /\ [][NextGen]_vars

\* C14: a generate_* call made while the publisher is not connected appends
\* exactly one event, adds one to event_count, publishes nothing, raises
\* nothing, leaves the simulation's arrays alone, and leaves the log, the
\* event count and the gate and bin counters equal to those of a generator
\* whose publisher is connected.
BrokerlessGenerate ==
    [][(eg'.calls = eg.calls + 1 /\ ~eg.live.connected) =>
          /\ Len(eg'.live.events) = Len(eg.live.events) + 1
          /\ eg'.live.event_count = eg.live.event_count + 1
          /\ eg'.live.published = eg.live.published
          /\ eg'.live.messages_published = eg.live.messages_published
          /\ ~eg'.live.raised
          /\ eg'.live.events = eg'.ref.events
          /\ eg'.live.event_count = eg'.ref.event_count
          /\ eg'.live.gate_counters = eg'.ref.gate_counters
          /\ eg'.live.bin_fill_levels = eg'.ref.bin_fill_levels
          /\ UNCHANGED SimVars]_vars

\* MaxCalls calls were made without a connection, on a generator that has a
\* client object: all are logged and counted, none is published, while the
\* connected generator published each of them
LoggedNotPublished ==
    /\ eg.calls = MaxCalls
    /\ ~eg.live.connected /\ eg.live.client = "Client"
    /\ Len(eg.live.events) = MaxCalls /\ eg.live.event_count = MaxCalls
    /\ eg.live.published = << >>
    /\ Len(eg.ref.published) >= MaxCalls
    /\ eg.live.gate_counters[GateSample] = -1

\* the publish calls a generator's client got between two states
NewCalls(before, after) ==
    SubSeq(after.publish_calls, Len(before.publish_calls) + 1, Len(after.publish_calls))

\* the calls of the underlying client that go with the publish calls
Handed(calls) ==
    LET Connected(c) == c.connected
        sent == SelectSeq(calls, Connected)
    IN  [k \in DOMAIN sent |-> <<sent[k].topic, sent[k].payload>>]

\* C31: every generate_* call of event_generator.py publishes its event
\* once on stadium/events/all and then, for bin_status and
\* bin_overflow_alert once on stadium/services/maintenance, for queue_update
\* once on stadium/services/queues, for crowd_density once on
\* stadium/services/heatmap, and for person and gate events on no other
\* topic; the client hands each of these messages on once while connected.
EventsRouted ==
    [][(eg.live.impl = "StadiumMQTTClient" /\ eg'.calls = eg.calls + 1) =>
          LET e == eg'.live.events[Len(eg'.live.events)]
              new == NewCalls(eg.live, eg'.live)
              service ==
                  IF e.event_type \in {"bin_status", "bin_overflow_alert"}
                  THEN <<"stadium/services/maintenance">>
                  ELSE IF e.event_type = "queue_update"
                  THEN <<"stadium/services/queues">>
                  ELSE IF e.event_type = "crowd_density"
                  THEN <<"stadium/services/heatmap">>
                  ELSE << >>
          IN  /\ Len(eg'.live.events) = Len(eg.live.events) + 1
              /\ [k \in DOMAIN new |-> new[k].topic] = <<"stadium/events/all">> \o service
              /\ \A k \in DOMAIN new : new[k].payload = e
              /\ eg'.live.published = eg.live.published \o Handed(new)
              /\ e.event_type \in {"gate_passage", PersonEventSample} => service = << >>]_vars

\* a connected generator has published a bin, a queue and a gate event: five
\* messages, two of them on service topics
ThreeEventsRouted ==
    /\ eg.live.impl = "StadiumMQTTClient"
    /\ eg.calls = 3
    /\ {eg.live.events[k].event_type : k \in DOMAIN eg.live.events}
          = {"bin_status", "queue_update", "gate_passage"}
    /\ Len(eg.live.published) = 5
    /\ {eg.live.published[k][1] : k \in DOMAIN eg.live.published}
          = {"stadium/events/all", "stadium/services/maintenance", "stadium/services/queues"}

(***************************************************************************)
(* StadiumMQTTClient of mqtt_broker.py on its own: publish is called       *)
(* directly, between connections, disconnections and changes of what the   *)
(* underlying paho client answers.                                         *)
(***************************************************************************)
\* a payload that is no event of the generator, and the topics it is sent to
RawPayload == [event_type |-> "raw", id |-> "-", value |-> 0]
RawTopics == {"test/topic", MQTT_TOPIC_ALL_EVENTS}

\* a caller calls StadiumMQTTClient.publish
Publish ==
    /\ eg.publishes < MaxPublishes
    /\ eg.live.impl = "StadiumMQTTClient"
    /\ \E topic \in RawTopics :
          eg' = [eg EXCEPT !.live = publish(@, topic, RawPayload),
                           !.ref = publish(@, topic, RawPayload),
                           !.publishes = @ + 1]
    /\ UNCHANGED <<SimVars, zq, lp>>

\* the underlying paho client starts to answer publish calls differently
ClientOutcome ==
    /\ eg.publishes < MaxPublishes
    /\ eg.live.impl = "StadiumMQTTClient"
    /\ \E outcome \in ClientOutcomes \ {eg.live.client_outcome} :
          eg' = [eg EXCEPT !.live.client_outcome = outcome]
    /\ UNCHANGED <<SimVars, zq, lp>>

\* StadiumMQTTClient.__init__: connected = False, stats all zero
InitClient ==
    /\ SimParked
    /\ zq = NotUsed
    /\ lp = NotUsed
    /\ \E broker_up \in BOOLEAN :
          eg = [live |-> NewGenerator("StadiumMQTTClient", "Client", FALSE),
                ref |-> NewGenerator("StadiumMQTTClient", "Client", TRUE),
                broker_up |-> broker_up,
                calls |-> 0,
                publishes |-> 0]

NextClient ==
    \/ OnConnect
    \/ OnDisconnect
    \/ Publish
    \/ ClientOutcome

SpecClient == InitClient /\ [][NextClient]_vars

\* C32: StadiumMQTTClient.publish called while not connected returns 1, does
\* not call the underlying client and leaves messages_published as it is;
\* called while connected it adds exactly one to messages_published and
\* calls the underlying client, whatever that call answers, and it returns 0
\* only if the underlying call reported success.
PublishContract ==
    [][eg'.publishes = eg.publishes + 1 =>
          LET new == NewCalls(eg.live, eg'.live)
              call == new[1]
          IN  /\ Len(new) = 1
              /\ call.connected = eg.live.connected
              /\ ~eg.live.connected =>
                    /\ call.returned = 1
                    /\ eg'.live.published = eg.live.published
                    /\ eg'.live.messages_published = eg.live.messages_published
              /\ eg.live.connected =>
                    /\ eg'.live.published = Append(eg.live.published, <<call.topic, call.payload>>)
                    /\ eg'.live.messages_published = eg.live.messages_published + 1
                    /\ call.outcome = eg.live.client_outcome
              /\ call.returned \in {0, 1}
              /\ call.returned = 0 => (eg.live.connected /\ eg.live.client_outcome = "success")]_vars

\* three direct calls: one refused without a connection, one that the
\* underlying client failed and one that it sent; two are counted
RefusedFailedSent ==
    /\ eg.publishes = 3
    /\ Len(eg.live.publish_calls) = 3
    /\ ~eg.live.publish_calls[1].connected /\ eg.live.publish_calls[1].returned = 1
    /\ eg.live.publish_calls[2].outcome = "raises" /\ eg.live.publish_calls[2].returned = 1
    /\ eg.live.publish_calls[3].outcome = "success" /\ eg.live.publish_calls[3].returned = 0
    /\ eg.live.messages_published = 2
    /\ Len(eg.live.published) = 2

(***************************************************************************)
(* StadiumBoundaries of stadium_boundaries.py: the seating zones, the      *)
(* gates with the sector computed from their angle, and a caller that asks *)
(* get_zone_for_gate for a zone and then looks the zone up.  Coordinates   *)
(* are in tenths of a pixel.                                               *)
(***************************************************************************)
CENTER_X_L0 == 7461
CENTER_Y_L0 == 4806

\* _create_seating_zones: level and sector of each zone
seating_zones ==
    [z \in {"NORTE_L0", "SUL_L0", "ESTE_L0", "OESTE_L0", "ESTE_L1", "OESTE_L1"} |->
        CASE z = "NORTE_L0" -> [level |-> 0, sector |-> "NORTE"]
          [] z = "SUL_L0" -> [level |-> 0, sector |-> "SUL"]
          [] z = "ESTE_L0" -> [level |-> 0, sector |-> "ESTE"]
          [] z = "OESTE_L0" -> [level |-> 0, sector |-> "OESTE"]
          [] z = "ESTE_L1" -> [level |-> 1, sector |-> "ESTE"]
          [] z = "OESTE_L1" -> [level |-> 1, sector |-> "OESTE"]]

\* _create_gates: raw_gates, position only (the 'sec' label is not read)
raw_gates ==
    [g \in {"GATE_21", "GATE_22", "GATE_23", "GATE_7", "GATE_8", "GATE_9",
            "GATE_10", "GATE_11", "GATE_12", "GATE_13", "GATE_17", "GATE_18",
            "GATE_3", "GATE_4", "GATE_5", "GATE_6", "GATE_24", "GATE_25",
            "GATE_26", "GATE_27"} |->
        CASE g = "GATE_21" -> <<7460, 8690>>
          [] g = "GATE_22" -> <<9840, 8150>>
          [] g = "GATE_23" -> <<11250, 7120>>
          [] g = "GATE_7" -> <<11900, 6260>>
          [] g = "GATE_8" -> <<12200, 5280>>
          [] g = "GATE_9" -> <<12200, 4310>>
          [] g = "GATE_10" -> <<11880, 3300>>
          [] g = "GATE_11" -> <<11260, 2470>>
          [] g = "GATE_12" -> <<9860, 1420>>
          [] g = "GATE_13" -> <<7440, 920>>
          [] g = "GATE_17" -> <<5060, 1460>>
          [] g = "GATE_18" -> <<3750, 2320>>
          [] g = "GATE_3" -> <<3250, 3000>>
          [] g = "GATE_4" -> <<2850, 3690>>
          [] g = "GATE_5" -> <<2660, 4460>>
          [] g = "GATE_6" -> <<2660, 5210>>
          [] g = "GATE_24" -> <<2850, 6010>>
          [] g = "GATE_25" -> <<3250, 6650>>
          [] g = "GATE_26" -> <<3750, 7250>>
          [] g = "GATE_27" -> <<5040, 8190>>]

\* the sector of the angle of (dx, dy): 45 <= angle < 135 is 'Norte',
\* 135 <= angle < 225 'Este', 225 <= angle < 315 'Sul', else 'Oeste'
real_sector(dx, dy) ==
    IF dy > 0 /\ dx <= dy /\ dx > -dy THEN "Norte"
    ELSE IF dx < 0 /\ dy <= -dx /\ dy > dx THEN "Este"
    ELSE IF dy < 0 /\ dx >= dy /\ dx < -dy THEN "Sul"
    ELSE "Oeste"

\* self.gates: the sector of each gate
zone_gates ==
    [g \in DOMAIN raw_gates |->
        [location |-> raw_gates[g],
         sector |-> real_sector(raw_gates[g][1] - CENTER_X_L0,
                                raw_gates[g][2] - CENTER_Y_L0)]]

\* str.upper on the four sector names
upper(sector) ==
    CASE sector = "Norte" -> "NORTE"
      [] sector = "Este" -> "ESTE"
      [] sector = "Sul" -> "SUL"
      [] sector = "Oeste" -> "OESTE"

\* get_zone_for_gate with a seeded fault: the suffix follows the level alone
get_zone_for_gateAnyLevel1(gate_name, level) ==
    IF gate_name \notin DOMAIN zone_gates THEN "NORTE_L0"
    ELSE LET sector == zone_gates[gate_name].sector
             suffix == IF level = 1 THEN "L1" ELSE "L0"
         IN  upper(sector) \o "_" \o suffix

get_zone_for_gate(gate_name, level) ==
    IF gate_name \notin DOMAIN zone_gates THEN "NORTE_L0"
    ELSE LET sector == zone_gates[gate_name].sector
             suffix == IF level = 1 /\ sector \in {"Este", "Oeste"} THEN "L1" ELSE "L0"
         IN  upper(sector) \o "_" \o suffix

\* the gate names and levels a caller passes: every gate and a name that is
\* not a gate; the two levels of the stadium
GateArguments == DOMAIN raw_gates \cup {"GATE_99"}
LevelArguments == {0, 1}

\* level of the seat get_random_seat_in_zone produces: None for an unknown zone
NoSeat == -1
seat_level(zone_name) ==
    IF zone_name \notin DOMAIN seating_zones THEN NoSeat
    ELSE seating_zones[zone_name].level

InitZone ==
    /\ SimParked
    /\ eg = NotUsed
    /\ lp = NotUsed
    /\ \E g \in GateArguments, l \in LevelArguments :
          zq = [pc |-> "start", gate |-> g, level |-> l, zone |-> "-", seat |-> NoSeat]

\* zone = get_zone_for_gate(gate, level)
GetZone ==
    /\ zq.pc = "start"
    /\ zq' = [zq EXCEPT !.pc = "zone", !.zone = get_zone_for_gate(zq.gate, zq.level)]
    /\ UNCHANGED <<SimVars, eg, lp>>

\* seat = get_random_seat_in_zone(zone)
GetSeat ==
    /\ zq.pc = "zone"
    /\ zq' = [zq EXCEPT !.pc = "seat", !.seat = seat_level(zq.zone)]
    /\ UNCHANGED <<SimVars, eg, lp>>

NextZone == GetZone \/ GetSeat

SpecZone == InitZone /\ [][NextZone]_vars

\* C16 as stated: for every gate and level 0 or 1 the zone returned exists
\* in seating_zones and has the requested level.
ZoneLevelMatches ==
    (zq.pc # "start" /\ zq.gate \in DOMAIN zone_gates /\ zq.level \in {0, 1}) =>
        /\ zq.zone \in DOMAIN seating_zones
        /\ seating_zones[zq.zone].level = zq.level

\* the levels on which a sector has a seating zone
LevelsOf(sector) ==
    {seating_zones[z].level : z \in {y \in DOMAIN seating_zones : seating_zones[y].sector = sector}}

\* C16 amended: for every gate and level 0 or 1 the zone returned exists in
\* seating_zones, lies in the sector of the gate, and has the requested
\* level when the sector has a zone on that level and level 0 when it has
\* none (Norte and Sul have no zone on level 1); the seat drawn from it is
\* on the level of the zone.
ZoneExistsInSector ==
    (zq.pc # "start" /\ zq.gate \in DOMAIN zone_gates /\ zq.level \in {0, 1}) =>
        /\ zq.zone \in DOMAIN seating_zones
        /\ seating_zones[zq.zone].sector = upper(zone_gates[zq.gate].sector)
        /\ seating_zones[zq.zone].level =
              (IF zq.level \in LevelsOf(seating_zones[zq.zone].sector) THEN zq.level ELSE 0)
        /\ zq.pc = "seat" => zq.seat = seating_zones[zq.zone].level

\* level 1 was asked for GATE_21, a gate of sector Norte: the zone is NORTE_L0
Level1AskedInNorte ==
    /\ zq.pc = "seat" /\ zq.gate = "GATE_21" /\ zq.level = 1
    /\ zone_gates["GATE_21"].sector = "Norte"
    /\ zq.zone = "NORTE_L0" /\ zq.seat = 0

(***************************************************************************)
(* The bin, fire alarm and evacuation events of the main loop (lines        *)
(* 659-720), iteration by iteration.  These statements read the loop        *)
(* variable, their own flags and the generator's bin levels, and nothing    *)
(* the agent loop writes, so they are followed on their own.  lp.gen is the *)
(* EventGenerator; its log is kept from the start of the current iteration  *)
(* on.  The density and queue batches come before the bin batch in the      *)
(* iteration and are left out.                                              *)
(***************************************************************************)
\* the first two keys of boundaries.bins
LoopBins == <<"BIN_NORTE_1", "BIN_NORTE_2">>
\* np.random.uniform(10, 30), in percent
BinInitSamples == {12, 30}
\* np.random.uniform(60, 95) and np.random.uniform(40, 70)
SmokeSamples == {70, 80, 90}
TemperatureSamples == {50, 60, 65}
\* f"FIRE-{uuid.uuid4().hex[:6]}"
AlarmIds == {"FIRE-0a1b2c", "FIRE-d4e5f6"}
OVERFLOW_LEVEL == 95
EVACUATION_DELAY == 5

fire_severity(smoke_level, temperature) ==
    IF smoke_level > 80 \/ temperature > 60 THEN "critical"
    ELSE IF smoke_level > 50 \/ temperature > 45 THEN "high"
    ELSE "medium"

generate_fire_alarm_event(g, alarm_id, smoke_level, temperature) ==
    Emit(g, "generate_fire_alarm_event",
         [event_type |-> "fire_alarm", id |-> alarm_id,
          value |-> fire_severity(smoke_level, temperature),
          smoke_level |-> smoke_level, temperature |-> temperature])

generate_staff_dispatch(g, alarm_id) ==
    Emit(g, "generate_staff_dispatch",
         [event_type |-> "staff_dispatch", id |-> alarm_id, value |-> "fire_alarm_response"])

generate_evacuation_event(g, edge_from, edge_to, reason) ==
    Emit(g, "generate_evacuation_event",
         [event_type |-> "evac_update", id |-> edge_from \o "-" \o edge_to, value |-> reason])

generate_bin_overflow_alert(g, bin_id) ==
    Emit(g, "generate_bin_overflow_alert",
         [event_type |-> "bin_overflow_alert", id |-> bin_id, value |-> "high"])

\* event_gen.bin_fill_levels.get(bin_id, 0); the levels are whole percents,
\* which round(fill_percentage, 1) leaves as they are
LevelOf(g, bin_id) ==
    IF bin_id \in DOMAIN g.bin_fill_levels THEN g.bin_fill_levels[bin_id] ELSE 0

\* BinUpdate with a seeded fault: the alert looks at the level before the event
BinUpdateStale(g, bin_id, increment) ==
    LET after == generate_bin_event(g, bin_id, NoFill, increment)
    IN  IF LevelOf(g, bin_id) > OVERFLOW_LEVEL
        THEN generate_bin_overflow_alert(after, bin_id)
        ELSE after

\* the body of "for bin_id, bin_pos in boundaries.bins.items()"
BinUpdate(g, bin_id, increment) ==
    LET after == generate_bin_event(g, bin_id, NoFill, increment)
    IN  IF LevelOf(after, bin_id) > OVERFLOW_LEVEL
        THEN generate_bin_overflow_alert(after, bin_id)
        ELSE after

RECURSIVE BinCycle(_, _, _)
BinCycle(g, bin_ids, increments) ==
    IF bin_ids = << >> THEN g
    ELSE BinCycle(BinUpdate(g, Head(bin_ids), Head(increments)),
                  Tail(bin_ids), Tail(increments))

\* FireAlarm with a seeded fault: the corridor is closed for every severity
\* but medium
FireAlarmEvacuatesOnHigh(g, alarm_id, smoke_level, temperature) ==
    LET alarmed == generate_fire_alarm_event(g, alarm_id, smoke_level, temperature)
        alarm == alarmed.events[Len(alarmed.events)]
        dispatched == generate_staff_dispatch(alarmed, alarm.id)
    IN  IF alarm.value # "medium"
        THEN generate_evacuation_event(dispatched, "N23", "N24", "fire")
        ELSE dispatched

\* the alarm, the dispatch and the evacuation of lines 684-712
FireAlarm(g, alarm_id, smoke_level, temperature) ==
    LET alarmed == generate_fire_alarm_event(g, alarm_id, smoke_level, temperature)
        alarm == alarmed.events[Len(alarmed.events)]
        dispatched == generate_staff_dispatch(alarmed, alarm.id)
    IN  IF alarm.value = "critical"
        THEN generate_evacuation_event(dispatched, "N23", "N24", "fire")
        ELSE dispatched

\* FireOpen with a seeded fault: fire_alarm_triggered is not tested
FireOpenNoFlag(l, s) ==
    /\ TIMELINE.game_start * FPS < s
    /\ s < TIMELINE.game_end * FPS

\* not fire_alarm_triggered and game_start < current_time < game_end
FireOpen(l, s) ==
    /\ ~l.fire_alarm_triggered
    /\ TIMELINE.game_start * FPS < s
    /\ s < TIMELINE.game_end * FPS

\* not evacuation_triggered and current_time > game_end + 5
EvacuationOpen(l, s) ==
    /\ ~l.evacuation_triggered
    /\ s > (TIMELINE.game_end + EVACUATION_DELAY) * FPS

\* np.random.random() < 0.001 with the sensor readings and the alarm id drawn
NoFire == [hit |-> FALSE, alarm_id |-> "-", smoke_level |-> 0, temperature |-> 0]
FireDraws ==
    {NoFire} \cup
    {[hit |-> TRUE, alarm_id |-> a, smoke_level |-> sm, temperature |-> t] :
        a \in AlarmIds, sm \in SmokeSamples, t \in TemperatureSamples}

InitLoop ==
    /\ SimParked
    /\ eg = NotUsed
    /\ zq = NotUsed
    /\ \E levels \in [{LoopBins[k] : k \in DOMAIN LoopBins} -> BinInitSamples] :
          lp = [step |-> 0,
                last_bin_update |-> 0,
                gen |-> [NewGenerator("MQTTPublisher", "None", FALSE)
                            EXCEPT !.bin_fill_levels = levels],
                fire_alarm_triggered |-> FALSE,
                evacuation_triggered |-> FALSE,
                fire_alarms |-> 0,
                crowd_evacuations |-> 0]

\* one iteration of "for step in range(STEPS)": bin batch, fire alarm,
\* crowd evacuation
LoopTick ==
    /\ lp.step < STEPS
    /\ LET s == lp.step
           bin_due == Due(s, lp.last_bin_update, BIN_PERIOD)
       IN  \E increments \in (IF bin_due THEN [DOMAIN LoopBins -> BinIncrementSamples]
                                         ELSE {<< >>}),
              fire \in (IF FireOpen(lp, s) THEN FireDraws ELSE {NoFire}),
              crowd \in (IF EvacuationOpen(lp, s) THEN BOOLEAN ELSE {FALSE}) :
              LET g0 == [lp.gen EXCEPT !.events = << >>, !.event_count = 0]
                  g1 == IF bin_due THEN BinCycle(g0, LoopBins, increments) ELSE g0
                  g2 == IF fire.hit
                        THEN FireAlarm(g1, fire.alarm_id, fire.smoke_level, fire.temperature)
                        ELSE g1
                  g3 == IF crowd THEN generate_evacuation_event(g2, "N23", "N24", "crowd")
                        ELSE g2
              IN  lp' = [step |-> s + 1,
                         last_bin_update |-> IF bin_due THEN s ELSE lp.last_bin_update,
                         gen |-> g3,
                         fire_alarm_triggered |-> lp.fire_alarm_triggered \/ fire.hit,
                         evacuation_triggered |-> lp.evacuation_triggered \/ crowd,
                         fire_alarms |-> lp.fire_alarms + (IF fire.hit THEN 1 ELSE 0),
                         crowd_evacuations |-> lp.crowd_evacuations + (IF crowd THEN 1 ELSE 0)]
    /\ UNCHANGED <<SimVars, eg, zq>>

NextLoop == LoopTick

SpecLoop == InitLoop /\ [][NextLoop]_vars

\* the positions of the iteration's log that hold an event of the type
Positions(events, type) ==
    {k \in 1 .. Len(events) : events[k].event_type = type}

\* C27: a run generates at most one fire_alarm event, in a tick with
\* game_start < current_time < game_end, and at most one crowd evacuation
\* event, in a tick with current_time > game_end + 5.
HazardsOnce ==
    [][LET log == lp'.gen.events
           crowd == {k \in Positions(log, "evac_update") : log[k].value = "crowd"}
       IN  /\ Cardinality(Positions(log, "fire_alarm")) = lp'.fire_alarms - lp.fire_alarms
           /\ Cardinality(crowd) = lp'.crowd_evacuations - lp.crowd_evacuations
           /\ lp'.fire_alarms <= 1
           /\ lp'.crowd_evacuations <= 1
           /\ Positions(log, "fire_alarm") # {} =>
                 /\ TIMELINE.game_start * FPS < lp.step
                 /\ lp.step < TIMELINE.game_end * FPS
           /\ crowd # {} => lp.step > (TIMELINE.game_end + 5) * FPS]_vars

\* the run has ended with one fire alarm and one crowd evacuation
BothHazardsSeen ==
    lp.step = STEPS /\ lp.fire_alarms = 1 /\ lp.crowd_evacuations = 1

\* C28: in the log every fire_alarm event is directly followed by a
\* staff_dispatch event with the same alarm_id, which is the only dispatch,
\* and the dispatch is directly followed by an evac_update event with reason
\* fire exactly when the alarm is critical, that is when its smoke level is
\* above 80 or its temperature above 60.
FireResponseOrder ==
    LET log == lp.gen.events
    IN  /\ \A k \in Positions(log, "fire_alarm") :
              /\ k + 1 \in Positions(log, "staff_dispatch")
              /\ log[k + 1].id = log[k].id
              /\ (k + 2 \in Positions(log, "evac_update") /\ log[k + 2].value = "fire")
                    <=> log[k].value = "critical"
              /\ log[k].value = "critical"
                    <=> (log[k].smoke_level > 80 \/ log[k].temperature > 60)
        /\ \A k \in Positions(log, "staff_dispatch") :
              k - 1 \in Positions(log, "fire_alarm")

\* an alarm that is critical by its temperature alone is logged with its
\* dispatch and the evacuation
CriticalAlarmLogged ==
    LET log == lp.gen.events
    IN  \E k \in Positions(log, "fire_alarm") :
            /\ log[k].value = "critical" /\ log[k].smoke_level = 80
            /\ log[k + 1].event_type = "staff_dispatch"
            /\ log[k + 2].event_type = "evac_update"

\* C29: a generate_bin_event call without fill_percentage never lowers the
\* level of its bin and never takes it above 100, and its event has
\* needs_service exactly when the new level is above 85.
BinLevelsMonotoneCapped ==
    [][LET log == lp'.gen.events
       IN  /\ \A b \in DOMAIN lp.gen.bin_fill_levels :
                 /\ lp'.gen.bin_fill_levels[b] >= lp.gen.bin_fill_levels[b]
                 /\ lp'.gen.bin_fill_levels[b] <= 100
           /\ \A k \in Positions(log, "bin_status") :
                 log[k].needs_service <=> lp'.gen.bin_fill_levels[log[k].id] > 85]_vars

\* a bin is full and asks for service while the other does not
OneBinFull ==
    LET log == lp.gen.events
    IN  \E j, k \in Positions(log, "bin_status") :
            /\ log[j].value = 100 /\ log[j].needs_service
            /\ log[k].value <= 85 /\ ~log[k].needs_service

\* C30: in a bin cycle the bin_status event of a bin is directly followed by
\* a bin_overflow_alert for that bin exactly when the bin's level after the
\* event is above 95, no other alert is logged, and a bin that was above 95
\* before the cycle gets an alert in the cycle.
OverflowAlerts ==
    [][LET log == lp'.gen.events
       IN  /\ \A k \in Positions(log, "bin_status") :
                 (k + 1 \in Positions(log, "bin_overflow_alert") /\ log[k + 1].id = log[k].id)
                    <=> lp'.gen.bin_fill_levels[log[k].id] > 95
           /\ \A k \in Positions(log, "bin_overflow_alert") :
                 k - 1 \in Positions(log, "bin_status") /\ log[k - 1].id = log[k].id
           /\ \A k \in Positions(log, "bin_status") :
                 lp.gen.bin_fill_levels[log[k].id] > 95 =>
                    k + 1 \in Positions(log, "bin_overflow_alert")]_vars

\* a cycle in which the first bin, above 95 and below 100, gets an alert and
\* the second bin gets none
AlertForOneBin ==
    LET log == lp.gen.events
    IN  /\ Len(log) >= 3
        /\ log[1].event_type = "bin_status" /\ log[1].value \in 96 .. 99
        /\ log[2].event_type = "bin_overflow_alert" /\ log[2].id = log[1].id
        /\ log[3].event_type = "bin_status" /\ log[3].value <= 95

(***************************************************************************)
(* The bars and toilets of StadiumBoundaries (stadium_boundaries.py) and   *)
(* the search for the nearest one on a level.  Coordinates are tenths of a *)
(* pixel.  Distances are compared by their squares, which orders them      *)
(* as np.linalg.norm does.  zq.queries holds the calls made so far with    *)
(* what each returned.                                                      *)
(***************************************************************************)
\* number of get_nearest_bar / get_nearest_toilet calls followed
MaxQueries == 2

\* self.bars, in the order _create_bars fills the dictionary
create_bars == << [name |-> "REST_L0_1", center |-> <<7442, 8186>>, level |-> 0, capacity |-> 20],
                  [name |-> "REST_L0_2", center |-> <<9578, 7680>>, level |-> 0, capacity |-> 20],
                  [name |-> "REST_L0_3", center |-> <<11095, 6481>>, level |-> 0, capacity |-> 20],
                  [name |-> "REST_L0_4", center |-> <<11695, 4814>>, level |-> 0, capacity |-> 20],
                  [name |-> "REST_L0_5", center |-> <<11095, 3165>>, level |-> 0, capacity |-> 20],
                  [name |-> "REST_L0_6", center |-> <<9559, 1947>>, level |-> 0, capacity |-> 20],
                  [name |-> "REST_L0_7", center |-> <<7461, 1441>>, level |-> 0, capacity |-> 20],
                  [name |-> "REST_L0_8", center |-> <<5344, 1947>>, level |-> 0, capacity |-> 20],
                  [name |-> "REST_L0_9", center |-> <<3789, 3146>>, level |-> 0, capacity |-> 20],
                  [name |-> "REST_L0_10", center |-> <<3227, 4795>>, level |-> 0, capacity |-> 20],
                  [name |-> "REST_L0_11", center |-> <<3808, 6444>>, level |-> 0, capacity |-> 20],
                  [name |-> "REST_L0_12", center |-> <<5363, 7680>>, level |-> 0, capacity |-> 20] >>

\* self.toilets, in the order _create_toilets fills the dictionary
create_toilets == << [name |-> "WC_L0_1", center |-> <<6393, 7867>>, level |-> 0, capacity |-> 10],
                     [name |-> "WC_L0_2", center |-> <<8510, 7886>>, level |-> 0, capacity |-> 10],
                     [name |-> "WC_L0_3", center |-> <<11414, 5657>>, level |-> 0, capacity |-> 10],
                     [name |-> "WC_L0_4", center |-> <<11395, 3971>>, level |-> 0, capacity |-> 10],
                     [name |-> "WC_L0_5", center |-> <<8529, 1722>>, level |-> 0, capacity |-> 10],
                     [name |-> "WC_L0_6", center |-> <<6393, 1741>>, level |-> 0, capacity |-> 10],
                     [name |-> "WC_L0_7", center |-> <<3489, 4008>>, level |-> 0, capacity |-> 10],
                     [name |-> "WC_L0_8", center |-> <<3489, 5619>>, level |-> 0, capacity |-> 10],
                     [name |-> "WC_L1_1", center |-> <<5862, 8137>>, level |-> 1, capacity |-> 10],
                     [name |-> "WC_L1_2", center |-> <<8322, 8137>>, level |-> 1, capacity |-> 10],
                     [name |-> "WC_L1_3", center |-> <<11590, 5537>>, level |-> 1, capacity |-> 10],
                     [name |-> "WC_L1_4", center |-> <<11590, 3621>>, level |-> 1, capacity |-> 10],
                     [name |-> "WC_L1_5", center |-> <<8287, 1074>>, level |-> 1, capacity |-> 10],
                     [name |-> "WC_L1_6", center |-> <<5844, 1074>>, level |-> 1, capacity |-> 10],
                     [name |-> "WC_L1_7", center |-> <<2559, 3674>>, level |-> 1, capacity |-> 10],
                     [name |-> "WC_L1_8", center |-> <<2541, 5572>>, level |-> 1, capacity |-> 10] >>

\* the pair (None, None)
NoFacility == [name |-> "None", center |-> <<0, 0>>, level |-> -1, capacity |-> 0]

\* the loop of _get_nearest_generic over subset from entry k on; nearest is
\* NoFacility while min_dist is float('inf')
RECURSIVE NearestFrom(_, _, _, _)
NearestFrom(subset, position, k, nearest) ==
    IF k > Len(subset) THEN nearest
    ELSE NearestFrom(subset, position, k + 1,
                     IF nearest = NoFacility
                        \/ Dist2(position, subset[k].center) < Dist2(position, nearest.center)
                     THEN subset[k] ELSE nearest)

\* _get_nearest_generic with a seeded fault: a later facility at the same
\* distance replaces the earlier one
RECURSIVE NearestFromLast(_, _, _, _)
NearestFromLast(subset, position, k, nearest) ==
    IF k > Len(subset) THEN nearest
    ELSE NearestFromLast(subset, position, k + 1,
                         IF nearest = NoFacility
                            \/ Dist2(position, subset[k].center) <= Dist2(position, nearest.center)
                         THEN subset[k] ELSE nearest)

get_nearest_genericLastOnTie(collection, position, level) ==
    LET OnLevel(v) == v.level = level
        subset == SelectSeq(collection, OnLevel)
    IN  IF subset = << >> THEN NoFacility
        ELSE NearestFromLast(subset, position, 1, NoFacility)

get_nearest_generic(collection, position, level) ==
    LET OnLevel(v) == v.level = level
        subset == SelectSeq(collection, OnLevel)
    IN  IF subset = << >> THEN NoFacility
        ELSE NearestFrom(subset, position, 1, NoFacility)

\* get_nearest_bar(position, level) and get_nearest_toilet(position, level)
\* of StadiumBoundaries
nearest_bar(position, level) == get_nearest_generic(create_bars, position, level)
nearest_toilet(position, level) == get_nearest_generic(create_toilets, position, level)

\* positions asked for: the image corners and centre, the centre of
\* REST_L0_1, the point midway between WC_L1_1 and WC_L1_2, and five points
\* of the stands
PositionArguments ==
    {<<0, 0>>, <<14810, 9450>>, <<7461, 4806>>, <<7442, 8186>>,
     <<7092, 9000>>, <<3489, 4813>>,
     <<12000, 5000>>, <<3000, 3000>>, <<10000, 8000>>, <<6000, 1000>>}
\* levels asked for: the two levels and one the stadium does not have
NearestLevelArguments == {0, 1, 2}
FacilityKinds == {"BAR", "TOILET"}

InitNearest ==
    /\ SimParked
    /\ eg = NotUsed
    /\ lp = NotUsed
    /\ zq = [queries |-> << >>]

\* a caller asks for the nearest bar or toilet
GetNearest ==
    /\ Len(zq.queries) < MaxQueries
    /\ \E kind \in FacilityKinds, position \in PositionArguments,
          level \in NearestLevelArguments :
          zq' = [zq EXCEPT !.queries =
                    Append(@, [kind |-> kind, position |-> position, level |-> level,
                               result |-> IF kind = "BAR"
                                          THEN nearest_bar(position, level)
                                          ELSE nearest_toilet(position, level)])]
    /\ UNCHANGED <<SimVars, eg, lp>>

NextNearest == GetNearest

SpecNearest == InitNearest /\ [][NextNearest]_vars

\* the position in the dictionary of the facility with the name
IndexIn(collection, name) ==
    CHOOSE k \in DOMAIN collection : collection[k].name = name

\* C33: get_nearest_bar and get_nearest_toilet return a facility of the
\* requested level that no other facility of that kind and level is nearer
\* to than, the first in definition order among those at the same distance;
\* they return (None, None) when the kind has no facility on the level,
\* which is so for every bar query on level 1.
NearestOnLevel ==
    \A q \in {zq.queries[k] : k \in DOMAIN zq.queries} :
        LET collection == IF q.kind = "BAR" THEN create_bars ELSE create_toilets
            on_level == {k \in DOMAIN collection : collection[k].level = q.level}
        IN  /\ on_level = {} <=> q.result = NoFacility
            /\ on_level # {} =>
                  /\ \E k \in on_level : collection[k] = q.result
                  /\ \A k \in on_level :
                        /\ Dist2(q.position, q.result.center)
                              <= Dist2(q.position, collection[k].center)
                        /\ Dist2(q.position, q.result.center)
                              = Dist2(q.position, collection[k].center)
                              => IndexIn(collection, q.result.name) <= k
            /\ (q.kind = "BAR" /\ q.level = 1) => q.result = NoFacility

\* a toilet query midway between WC_L1_1 and WC_L1_2 on level 1 got WC_L1_1,
\* and a bar query on level 1 got (None, None)
TieAndNoBar ==
    /\ Len(zq.queries) = 2
    /\ zq.queries[1].kind = "TOILET" /\ zq.queries[1].level = 1
    /\ zq.queries[1].position = <<7092, 9000>>
    /\ zq.queries[1].result.name = "WC_L1_1"
    /\ Dist2(zq.queries[1].position, create_toilets[9].center)
          = Dist2(zq.queries[1].position, create_toilets[10].center)
    /\ zq.queries[2].kind = "BAR" /\ zq.queries[2].level = 1
    /\ zq.queries[2].result = NoFacility

====
